---------------------------- MODULE Spec2Model ----------------------------
(***************************************************************************)
(* Model of the CCKP validation pipeline (utils/union_qc.py) and of the    *)
(* legacy-annotation updater (annotations/edit_legacy_annotations.py).     *)
(*                                                                         *)
(* A data frame is a record [cols, rows]: cols is the ordered sequence of  *)
(* column names, rows the sequence of rows, each row a function from the   *)
(* column names to cells.  A cell is a string; the missing cell (pandas    *)
(* NaN) is encoded by the reserved string NaN below, which no data cell   *)
(* uses.                                                                   *)
(***************************************************************************)
EXTENDS Integers, Sequences, FiniteSets, TLC

VARIABLES
    pc,           \* position of the program: the function whose loop runs next
    inputList,    \* args.l: the requested table identifiers
    mergeFlag,    \* args.m
    k,            \* number of iterations done by the loop at pc
    tables,       \* get_tables: list(zip(tables, names)) so far
    newTables,    \* main: newTables, the list handed to the next stage
    bound,        \* combine_rows: whether aliasColumn and mapping are bound
    aliasColumn,  \* combine_rows: local aliasColumn
    mapping,      \* combine_rows: local mapping, <<column, rule>> in dict order
    table,        \* combine_rows: local table (after astype(str))
    mergedTable,  \* combine_rows: local mergedTable
    groups,       \* combine_rows: list(zip(groups, names)) so far
    valid,        \* validate_tables: list(zip(validNames, validOuts, validPaths)) so far
    checkTables,  \* main: checkTables
    parsed,       \* parse_out: list(zip(parsedNames, parsedOuts, parsedPaths)) so far
    validEntries, \* main: validEntries
    fs,           \* the local output folder: path -> content
    writes,       \* every path opened for writing, in order
    error,        \* the exception that ended the run, or NoError
    returncode,   \* <<name, exit status, manifest path>> of every validator run
    vocab_csv,    \* the reference table read by map_current_terms_to_legacy
    cv_dict,      \* the nested dictionary category -> (term -> standard term)
    manifest_table, \* the manifest table being updated
    versions      \* the manifest table after each update_nonpreferred_terms

runVars == <<pc, inputList, mergeFlag, k, tables, newTables, valid, checkTables,
             parsed, validEntries, fs, writes, error, returncode>>
mergeVars == <<bound, aliasColumn, mapping, table, mergedTable, groups>>
vocabVars == <<vocab_csv, cv_dict, manifest_table, versions>>
vars == <<runVars, mergeVars, vocabVars>>

-----------------------------------------------------------------------------
(* Bounds of the model *)

MaxRows == 2        \* most rows of a table handed to combine_rows
MaxBatch == 2       \* most tables in one combine_rows call
MaxIds == 2         \* most table identifiers on the command line
MaxVocabRows == 2   \* most rows of the vocabulary reference table
MaxManifestRows == 2 \* most rows of a manifest table
MaxUpdates == 2     \* most applications of update_nonpreferred_terms

-----------------------------------------------------------------------------
(* Generic helpers *)

NaN == "<NaN>"

NoError == [kind |-> "none", name |-> ""]

\* The exception caught and the item tried again: the stage goes on
Propagate_Caught(stage) == stage

\* main has no exception handler: an exception raised in stage ends the run
Propagate(stage) == "failed"

Range(s) == {s[j] : j \in DOMAIN s}

\* Sequences over S of length lo..hi
SeqsBetween(S, lo, hi) == UNION {[1..n -> S] : n \in lo..hi}

\* The indices from j on, in order, at which s holds x
RECURSIVE SelectIdx(_, _, _)
SelectIdx(s, x, j) ==
    IF j > Len(s) THEN <<>>
    ELSE (IF s[j] = x THEN <<j>> ELSE <<>>) \o SelectIdx(s, x, j + 1)

\* Position of the first occurrence of x in s, 0 if none
RECURSIVE IndexOf(_, _, _)
IndexOf(s, x, j) ==
    IF j > Len(s) THEN 0 ELSE IF s[j] = x THEN j ELSE IndexOf(s, x, j + 1)

\* str.join: sep.join(strs)
RECURSIVE Join(_, _)
Join(sep, strs) ==
    IF Len(strs) = 0 THEN ""
    ELSE IF Len(strs) = 1 THEN strs[1]
    ELSE strs[1] \o sep \o Join(sep, Tail(strs))

\* Code points, in increasing order, of the characters that occur in keys
Collation == " ,-0123456789<>ABCDEFGHIJKLMNOPQRSTUVWXYZ_abcdefghijklmnopqrstuvwxyz"

Ord(c) == CHOOSE j \in 1..Len(Collation) : SubSeq(Collation, j, j) = c

\* Python's string order: a < b
RECURSIVE StrLess(_, _)
StrLess(a, b) ==
    IF Len(b) = 0 THEN FALSE
    ELSE IF Len(a) = 0 THEN TRUE
    ELSE LET ca == Ord(SubSeq(a, 1, 1))
             cb == Ord(SubSeq(b, 1, 1))
         IN IF ca # cb THEN ca < cb
            ELSE StrLess(SubSeq(a, 2, Len(a)), SubSeq(b, 2, Len(b)))

\* The cells of column c of a data frame, in row order
Column(df, c) == [j \in DOMAIN df.rows |-> df.rows[j][c]]

\* The strings of set S in increasing order
RECURSIVE SortStrings(_)
SortStrings(S) ==
    IF S = {} THEN <<>>
    ELSE LET m == CHOOSE x \in S : \A y \in S \ {x} : StrLess(x, y)
         IN <<m>> \o SortStrings(S \ {m})

-----------------------------------------------------------------------------
(* Data frames *)

ColSet(df) == Range(df.cols)

\* DataFrame.astype(str): every cell becomes its str(); str(nan) is "nan"
Str(cell) == IF cell = NaN THEN "nan" ELSE cell

\* The coercion left out: cells keep their type
AsTypeStr_Skipped(df) == df

AsTypeStr(df) ==
    [cols |-> df.cols,
     rows |-> [j \in DOMAIN df.rows |-> [c \in ColSet(df) |-> Str(df.rows[j][c])]]]

\* GroupBy "first": the first non-null value of the group, NaN if there is none
RECURSIVE First(_)
First(vals) ==
    IF Len(vals) = 0 THEN NaN
    ELSE IF vals[1] # NaN THEN vals[1] ELSE First(Tail(vals))

\* One aggregation function applied to the values of a group
Aggregate(rule, vals) ==
    IF rule = "first" THEN First(vals) ELSE Join(",", vals)

\* df.groupby(alias, as_index=False).agg(rules): one row per distinct key, keys
\* sorted, rows with a missing key left out (dropna); the columns are the key
\* followed by the keys of rules in dict order
GroupByAgg(df, alias, rules) ==
    LET keys == SortStrings({df.rows[j][alias] : j \in DOMAIN df.rows} \ {NaN})
        members == [g \in Range(keys) |-> SelectIdx(Column(df, alias), g, 1)]
        vals(g, c) == [j \in DOMAIN members[g] |-> df.rows[members[g][j]][c]]
        names == [j \in DOMAIN rules |-> rules[j][1]]
        rule == [c \in Range(names) |-> rules[IndexOf(names, c, 1)][2]]
        outCols == <<alias>> \o names
    IN [cols |-> outCols,
        rows |-> [n \in DOMAIN keys |->
                    [c \in Range(outCols) |->
                        IF c = alias THEN keys[n]
                        ELSE Aggregate(rule[c], vals(keys[n], c))]]]

\* DataFrame.reset_index(): the old RangeIndex becomes a first column "index"
ResetIndex(df) ==
    [cols |-> <<"index">> \o df.cols,
     rows |-> [n \in DOMAIN df.rows |->
                 [c \in ColSet(df) \cup {"index"} |->
                     IF c = "index" THEN ToString(n - 1) ELSE df.rows[n][c]]]]

\* df.iloc[:, :-1]: all columns but the last
ILocInner_KeepIndex(df) ==
    LET kept == SubSeq(df.cols, 1, Len(df.cols) - 1)
    IN [cols |-> kept,
        rows |-> [n \in DOMAIN df.rows |-> [c \in Range(kept) |-> df.rows[n][c]]]]

\* df.iloc[:, 1:-1]: all columns but the first and the last
ILocInner(df) ==
    LET kept == SubSeq(df.cols, 2, Len(df.cols) - 1)
    IN [cols |-> kept,
        rows |-> [n \in DOMAIN df.rows |-> [c \in Range(kept) |-> df.rows[n][c]]]]

\* DataFrame.to_csv(path, index=False): a header line and one line per row;
\* a missing cell is written as the empty field
CsvField(cell) == IF cell = NaN THEN "" ELSE cell

ToCsv(df) ==
    [kind |-> "csv",
     header |-> df.cols,
     lines |-> [n \in DOMAIN df.rows |->
                  [j \in DOMAIN df.cols |-> CsvField(df.rows[n][df.cols[j]])]]]

-----------------------------------------------------------------------------
(* combine_rows: the per-type grouping key and aggregation rules *)

componentColumn == "Component"

idColumn(name) == Join("_", <<name, "id">>)

\* name[:-4]
Stem(name) == SubSeq(name, 1, Len(name) - 4)

grantColumn(name) == Join(" ", <<Stem(name), "Grant Number">>)
assayColumn(name) == Join(" ", <<Stem(name), "Assay">>)
tumorColumn(name) == Join(" ", <<Stem(name), "Tumor Type">>)
tissueColumn(name) == Join(" ", <<Stem(name), "Tissue">>)

PublicationMapping(name) ==
    << <<componentColumn, "first">>,
       <<idColumn(name), "join">>,
       <<grantColumn(name), "join">>,
       <<"Publication Doi", "first">>,
       <<"Publication Journal", "first">>,
       <<"Pubmed Url", "first">>,
       <<"Publication Title", "first">>,
       <<"Publication Year", "first">>,
       <<"Publication Keywords", "first">>,
       <<"Publication Authors", "first">>,
       <<"Publication Abstract", "first">>,
       <<assayColumn(name), "first">>,
       <<tumorColumn(name), "first">>,
       <<tissueColumn(name), "first">>,
       <<"Publication Accessibility", "first">>,
       <<"Publication Dataset Alias", "first">>,
       <<"entityId", "join">> >>

DatasetMapping(name) ==
    << <<componentColumn, "first">>,
       <<idColumn(name), "join">>,
       <<"Dataset Pubmed Id", "first">>,
       <<grantColumn(name), "join">>,
       <<"Dataset Name", "first">>,
       <<"Dataset Description", "first">>,
       <<"Dataset Design", "first">>,
       <<assayColumn(name), "first">>,
       <<"Dataset Species", "first">>,
       <<tumorColumn(name), "first">>,
       <<tissueColumn(name), "first">>,
       <<"Dataset Url", "first">>,
       <<"Dataset File Formats", "first">>,
       <<"entityId", "join">> >>

ToolMapping(name) ==
    << <<componentColumn, "first">>,
       <<idColumn(name), "join">>,
       <<"Tool Pubmed Id", "first">>,
       <<grantColumn(name), "join">>,
       <<"Tool Description", "first">>,
       <<"Tool Homepage", "first">>,
       <<"Tool Version", "first">>,
       <<"Tool Operation", "first">>,
       <<"Tool Input Data", "first">>,
       <<"Tool Output Data", "first">>,
       <<"Tool Input Format", "first">>,
       <<"Tool Output Format", "first">>,
       <<"Tool Function Note", "first">>,
       <<"Tool Cmd", "first">>,
       <<"Tool Type", "first">>,
       <<"Tool Topic", "first">>,
       <<"Tool Operating System", "first">>,
       <<"Tool Language", "first">>,
       <<"Tool License", "first">>,
       <<"Tool Cost", "first">>,
       <<"Tool Accessibility", "first">>,
       <<"Tool Download Url", "first">>,
       <<"Tool Download Type", "first">>,
       <<"Tool Download Note", "first">>,
       <<"Tool Download Version", "first">>,
       <<"Tool Documentation Url", "first">>,
       <<"Tool Documentation Type", "first">>,
       <<"Tool Documentation Note", "first">>,
       <<"Tool Link Url", "first">>,
       <<"Tool Link Type", "first">>,
       <<"Tool Link Note", "first">>,
       <<"entityId", "join">> >>

ResourceMapping(name) ==
    << <<componentColumn, "first">>,
       <<idColumn(name), "join">>,
       <<"Resource Title", "first">>,
       <<"Resource Link", "first">>,
       <<"Resource Topic", "first">>,
       <<"Resource Activity Type", "first">>,
       <<"Resource Primary Format", "first">>,
       <<"Resource Intended Use", "first">>,
       <<"Resource Primary Audience", "first">>,
       <<"Resource Educational Level", "first">>,
       <<"Resource Description", "first">>,
       <<"Resource Origin Institution", "first">>,
       <<"Resource Language", "first">>,
       <<"Resource Contributors", "first">>,
       <<"Resource Grant Number", "join">>,
       <<"Resource Secondary Topic", "first">>,
       <<"Resource License", "first">>,
       <<"Resource Use Requirements", "first">>,
       <<"Resource Internal Identifier", "first">>,
       <<"Resource Media Accessibility", "first">>,
       <<"Resource Access Hazard", "first">>,
       <<"Resource Dataset Alias", "first">>,
       <<"Resource Tool Link", "first">>,
       <<"entityId", "join">> >>

\* The if/elif chain of one loop iteration: the bindings of aliasColumn and
\* mapping after it, given the bindings prev left by the iterations before.
\* No branch is taken for any other name, and the bindings stay as they were.
Bind(name, prev) ==
    IF name \in {"PublicationView", "DatasetView", "ToolView"}
    THEN IF name \in {"PublicationView", "DatasetView"}
         THEN IF name = "PublicationView"
              THEN [bound |-> TRUE, aliasColumn |-> "Pubmed Id",
                    mapping |-> PublicationMapping(name)]
              ELSE IF name = "DatasetView"
              THEN [bound |-> TRUE, aliasColumn |-> "Dataset Alias",
                    mapping |-> DatasetMapping(name)]
              ELSE prev
         ELSE IF name = "ToolView"
         THEN [bound |-> TRUE, aliasColumn |-> "Tool Name",
               mapping |-> ToolMapping(name)]
         ELSE prev
    ELSE IF name = "EducationalResource"
    THEN [bound |-> TRUE, aliasColumn |-> "Resource Alias",
          mapping |-> ResourceMapping(name)]
    ELSE prev

MappingCols(rules) == {rules[j][1] : j \in DOMAIN rules}

\* Lines 214-215: group, aggregate, reset the index, cut the first and last column
MergeTable(df, alias, rules) == ILocInner(ResetIndex(GroupByAgg(df, alias, rules)))

\* The merged table stored under the name of the fetched one
mergePath_Raw(name) == "output/" \o name \o ".csv"

mergePath(name) == "output/" \o name \o "_merged.csv"

\* The exception line 214 raises, "none" if it raises none
MergeError(df, b) ==
    IF ~b.bound THEN "UnboundLocalError"
    ELSE IF b.aliasColumn \notin ColSet(df) THEN "KeyError"
    ELSE IF ~(MappingCols(b.mapping) \subseteq ColSet(df)) THEN "KeyError"
    ELSE "none"

-----------------------------------------------------------------------------
(* combine_rows: one loop iteration, and the return *)

EmptyFrame == [cols |-> <<>>, rows |-> <<>>]

\* Opening path for writing and storing content in it
WriteFile(files, path, content) == (path :> content) @@ files

\* Lines 74-223 for the table at position k + 1 of the batch
combine_rows_iter ==
    /\ pc = "combine_rows"
    /\ k < Len(newTables)
    /\ LET name == newTables[k + 1][2]
           t == AsTypeStr(newTables[k + 1][1])
           b == Bind(name, [bound |-> bound, aliasColumn |-> aliasColumn,
                            mapping |-> mapping])
           err == MergeError(t, b)
       IN /\ table' = t
          /\ bound' = b.bound
          /\ aliasColumn' = b.aliasColumn
          /\ mapping' = b.mapping
          /\ IF err = "none"
             THEN LET m == MergeTable(t, b.aliasColumn, b.mapping)
                  IN /\ mergedTable' = m
                     /\ fs' = WriteFile(fs, mergePath(name), ToCsv(m))
                     /\ writes' = Append(writes, mergePath(name))
                     /\ groups' = Append(groups, <<mergePath(name), name>>)
                     /\ k' = k + 1
                     /\ UNCHANGED <<pc, error>>
             ELSE /\ pc' = Propagate(pc)
                  /\ error' = [kind |-> err, name |-> name]
                  /\ UNCHANGED <<mergedTable, fs, writes, groups, k>>
    /\ UNCHANGED <<inputList, mergeFlag, tables, newTables, valid, checkTables,
                   parsed, validEntries, returncode, vocabVars>>

\* Line 225, and main's lines 319-323
combine_rows_return ==
    /\ pc = "combine_rows"
    /\ k = Len(newTables)
    /\ newTables' = groups
    /\ pc' = "validate_tables"
    /\ k' = 0
    /\ UNCHANGED <<inputList, mergeFlag, tables, valid, checkTables, parsed,
                   validEntries, returncode, fs, writes, error, mergeVars, vocabVars>>

-----------------------------------------------------------------------------
(* The tables combine_rows is checked on *)

RegisteredNames == {"PublicationView", "DatasetView", "ToolView", "EducationalResource"}

\* The columns of a fetched table of a registered type: Component first, then
\* the grouping key, then the other columns of the type
SchemaCols(schema) ==
    LET b == Bind(schema, [bound |-> FALSE, aliasColumn |-> "", mapping |-> <<>>])
    IN IF b.bound
       THEN <<componentColumn, b.aliasColumn>>
            \o [j \in 1..(Len(b.mapping) - 1) |-> b.mapping[j + 1][1]]
       ELSE <<componentColumn, idColumn(schema), "Grant Name", "Grant Number", "entityId">>

SchemaKey(schema) ==
    Bind(schema, [bound |-> FALSE, aliasColumn |-> "", mapping |-> <<>>]).aliasColumn

\* A table whose Component label is name and whose columns are those of schema:
\* row j holds content[j].key in the grouping-key column and content[j].val in
\* every other column
BuildTable(name, schema, content) ==
    LET cols == SchemaCols(schema)
        key == SchemaKey(schema)
    IN [cols |-> cols,
        rows |-> [j \in DOMAIN content |->
                    [c \in Range(cols) |->
                        IF c = componentColumn THEN name
                        ELSE IF c = key THEN content[j].key
                        ELSE content[j].val]]]

\* The rows tables are made of: a missing key and the literal key "nan", which
\* astype(str) makes equal; a missing cell; equal and different cells under one key
RowValues ==
    {[key |-> NaN, val |-> NaN],
     [key |-> "nan", val |-> "syn2"],
     [key |-> "12345", val |-> "syn1"],
     [key |-> "12345", val |-> "syn2"]}

\* The four registered types, and a table of publication columns whose
\* Component label is not a registered name
TableVariants ==
    {[name |-> n, schema |-> n] : n \in RegisteredNames}
    \cup {[name |-> "Publicationview", schema |-> "PublicationView"]}

\* get_tables reads the name at row 1 (zero-based): a table has two rows or more
Contents == SeqsBetween(RowValues, 2, MaxRows)

InitVocabIdle ==
    /\ vocab_csv = <<>>
    /\ cv_dict = <<>>
    /\ manifest_table = EmptyFrame
    /\ versions = <<>>

InitMergeLocals ==
    /\ bound = FALSE
    /\ aliasColumn = ""
    /\ mapping = <<>>
    /\ table = EmptyFrame
    /\ mergedTable = EmptyFrame
    /\ groups = <<>>

\* combine_rows called on a batch of tables
InitMerge ==
    /\ \E content \in Contents :
       \E vs \in SeqsBetween(TableVariants, 1, MaxBatch) :
          newTables = [j \in DOMAIN vs |->
                         <<BuildTable(vs[j].name, vs[j].schema, content), vs[j].name>>]
    /\ pc = "combine_rows"
    /\ inputList = <<>>
    /\ mergeFlag = TRUE
    /\ k = 0
    /\ tables = <<>>
    /\ valid = <<>>
    /\ checkTables = <<>>
    /\ parsed = <<>>
    /\ validEntries = <<>>
    /\ fs = <<>>
    /\ writes = <<>>
    /\ error = NoError
    /\ returncode = <<>>
    /\ InitMergeLocals
    /\ InitVocabIdle

NextMerge == combine_rows_iter \/ combine_rows_return

SpecMerge == InitMerge /\ [][NextMerge]_vars

-----------------------------------------------------------------------------
(* edit_legacy_annotations.py: the vocabulary map *)

\* str.replace(", ", ","): every occurrence, left to right
RECURSIVE ReplaceCommaSpace(_)
ReplaceCommaSpace(s) ==
    IF Len(s) < 2 THEN s
    ELSE IF SubSeq(s, 1, 2) = ", "
         THEN "," \o ReplaceCommaSpace(SubSeq(s, 3, Len(s)))
         ELSE SubSeq(s, 1, 1) \o ReplaceCommaSpace(SubSeq(s, 2, Len(s)))

\* str.split(","): the pieces between commas, empty pieces kept; cur is the
\* piece read so far
RECURSIVE SplitComma(_, _)
SplitComma(s, cur) ==
    IF Len(s) = 0 THEN <<cur>>
    ELSE IF SubSeq(s, 1, 1) = ","
         THEN <<cur>> \o SplitComma(SubSeq(s, 2, Len(s)), "")
         ELSE SplitComma(SubSeq(s, 2, Len(s)), cur \o SubSeq(s, 1, 1))

\* Lines 55-57: the list of terms of one nonpreferred_values cell
TermsOf(cell) == SplitComma(ReplaceCommaSpace(cell), "")

\* Line 54: the rows whose nonpreferred_values is not null, in file order
RECURSIVE FilterNotNa(_)
FilterNotNa(rows) ==
    IF Len(rows) = 0 THEN <<>>
    ELSE (IF rows[1].nonpreferred_values # NaN THEN <<rows[1]>> ELSE <<>>)
         \o FilterNotNa(Tail(rows))

\* Line 58: explode, one row per term, in file order
RECURSIVE Explode(_)
Explode(rows) ==
    IF Len(rows) = 0 THEN <<>>
    ELSE LET terms == TermsOf(rows[1].nonpreferred_values)
         IN [j \in DOMAIN terms |->
                [category |-> rows[1].category,
                 valid_value |-> rows[1].valid_value,
                 nonpreferred_values |-> terms[j]]]
            \o Explode(Tail(rows))

\* A dictionary that keeps the first pair of every key
DictZip_FirstWins(keys, values) ==
    [t \in Range(keys) |->
        values[CHOOSE j \in DOMAIN keys :
                  /\ keys[j] = t
                  /\ \A i \in DOMAIN keys : keys[i] = t => j <= i]]

\* dict(zip(keys, values)): a later pair replaces an earlier one of the same key
DictZip(keys, values) ==
    [t \in Range(keys) |->
        values[CHOOSE j \in DOMAIN keys :
                  /\ keys[j] = t
                  /\ \A i \in DOMAIN keys : keys[i] = t => i <= j]]

\* Lines 51-66: category -> (nonpreferred term -> standard term); groupby
\* leaves out the rows whose category is null
MapCurrentTermsToLegacy(current_cv) ==
    LET exploded == Explode(FilterNotNa(current_cv))
        cats == {exploded[j].category : j \in DOMAIN exploded} \ {NaN}
        of(c) == SelectIdx(Column([rows |-> exploded], "category"), c, 1)
    IN [c \in cats |->
          DictZip([j \in DOMAIN of(c) |-> exploded[of(c)[j]].nonpreferred_values],
                  [j \in DOMAIN of(c) |-> exploded[of(c)[j]].valid_value])]

-----------------------------------------------------------------------------
(* edit_legacy_annotations.py: applying the map *)

\* attribute_dictionary.ATTRIBUTE_DICT: manifest column name -> category
ATTRIBUTE_DICT ==
    ("Publication Assay" :> "assay") @@ ("Dataset Assay" :> "assay")
    @@ ("Publication Tumor Type" :> "tumorType") @@ ("Dataset Tumor Type" :> "tumorType")

\* DataFrame.rename(columns=ATTRIBUTE_DICT): names not in the dictionary stay
Renamed(c) == IF c \in DOMAIN ATTRIBUTE_DICT THEN ATTRIBUTE_DICT[c] ELSE c

Rename(df) ==
    LET back(n) == CHOOSE c \in ColSet(df) : Renamed(c) = n
    IN [cols |-> [j \in DOMAIN df.cols |-> Renamed(df.cols[j])],
        rows |-> [j \in DOMAIN df.rows |->
                    [n \in {Renamed(c) : c \in ColSet(df)} |-> df.rows[j][back(n)]]]]

\* Series.map(dict): the value of the dictionary, null where there is no key
SeriesMap(vals, dict) ==
    [j \in DOMAIN vals |-> IF vals[j] \in DOMAIN dict THEN dict[vals[j]] ELSE NaN]

\* The fillna left out: a cell with no match stays null
FillNa_Dropped(vals, other) == vals

\* Forward fill instead: a null takes the value before it in the column
FillNa_Ffill(vals, other) ==
    [j \in DOMAIN vals |->
        IF vals[j] # NaN THEN vals[j]
        ELSE LET before == {i \in 1..(j - 1) : vals[i] # NaN}
             IN IF before = {} THEN NaN
                ELSE vals[CHOOSE i \in before : \A h \in before : h <= i]]

\* Series.fillna(other): a null takes the value of other at the same row
FillNa(vals, other) ==
    [j \in DOMAIN vals |-> IF vals[j] = NaN THEN other[j] ELSE vals[j]]

\* df.loc[:, c] = vals
SetColumn(df, c, vals) ==
    [cols |-> df.cols,
     rows |-> [j \in DOMAIN df.rows |-> [df.rows[j] EXCEPT ![c] = vals[j]]]]

\* Lines 78-85 for the categories cats, in index order
RECURSIVE UpdateCategories(_, _, _)
UpdateCategories(df, dict, cats) ==
    IF Len(cats) = 0 THEN df
    ELSE LET category == cats[1]
             next == IF category \in ColSet(df)
                     THEN SetColumn(df, category,
                                    FillNa(SeriesMap(Column(df, category), dict[category]),
                                           Column(df, category)))
                     ELSE df
         IN UpdateCategories(next, dict, Tail(cats))

\* Line 88: manifest_table.columns = og_colnames
RestoreColumns(df, og_colnames) ==
    [cols |-> og_colnames,
     rows |-> [j \in DOMAIN df.rows |->
                 [c \in Range(og_colnames) |->
                     df.rows[j][df.cols[IndexOf(og_colnames, c, 1)]]]]]

\* Lines 69-89
UpdateNonpreferredTerms(df, dict) ==
    RestoreColumns(UpdateCategories(Rename(df), dict, SortStrings(DOMAIN dict)),
                   df.cols)

\* Line 121 of main
map_current_terms_to_legacy ==
    /\ pc = "map_current_terms_to_legacy"
    /\ cv_dict' = MapCurrentTermsToLegacy(vocab_csv)
    /\ pc' = "update_manifest_tables"
    /\ UNCHANGED <<inputList, mergeFlag, k, tables, newTables, valid, checkTables,
                   parsed, validEntries, returncode, fs, writes, error, mergeVars,
                   vocab_csv, manifest_table, versions>>

\* Lines 97-100: the table as it is now (as fetched, or as the update before
\* left it) is updated once more
update_nonpreferred_terms ==
    /\ pc = "update_manifest_tables"
    /\ Len(versions) < MaxUpdates
    /\ LET current == IF Len(versions) = 0 THEN manifest_table
                      ELSE versions[Len(versions)]
       IN versions' = Append(versions, UpdateNonpreferredTerms(current, cv_dict))
    /\ UNCHANGED <<runVars, mergeVars, vocab_csv, cv_dict, manifest_table>>

\* The rows of the reference table: synonyms separated by "," and by ", ", a
\* term with no synonyms, a standard term that is a synonym of another standard
\* term, one synonym under two standard terms, the same synonym in another category
VocabRows ==
    {[category |-> "assay", valid_value |-> "RNA-seq", nonpreferred_values |-> "RNAseq, RNA Seq"],
     [category |-> "assay", valid_value |-> "Flow Cytometry", nonpreferred_values |-> NaN],
     [category |-> "assay", valid_value |-> "scRNA-seq", nonpreferred_values |-> "RNA-seq"],
     [category |-> "assay", valid_value |-> "scRNA-seq", nonpreferred_values |-> "scRNAseq,RNAseq"],
     [category |-> "tumorType", valid_value |-> "Carcinoma", nonpreferred_values |-> "RNAseq"]}

ManifestCols == <<"Component", "Publication Assay", "Publication Tumor Type", "Publication Title">>

\* A manifest row: an assay cell, a tumor type cell, and a title cell that
\* repeats the assay cell in a column of no category
ManifestRow(a, t) ==
    [c \in Range(ManifestCols) |->
        IF c = "Component" THEN "PublicationView"
        ELSE IF c = "Publication Tumor Type" THEN t ELSE a]

ManifestRows ==
    {ManifestRow(a, t) : a \in {"RNAseq", "RNA-seq", "Flow Cytometry"},
                         t \in {"RNAseq", "Carcinoma"}}

InitRunIdle ==
    /\ inputList = <<>>
    /\ mergeFlag = FALSE
    /\ k = 0
    /\ tables = <<>>
    /\ newTables = <<>>
    /\ valid = <<>>
    /\ checkTables = <<>>
    /\ parsed = <<>>
    /\ validEntries = <<>>
    /\ fs = <<>>
    /\ writes = <<>>
    /\ error = NoError
    /\ returncode = <<>>

InitVocab ==
    /\ vocab_csv \in SeqsBetween(VocabRows, 0, MaxVocabRows)
    /\ \E rows \in SeqsBetween(ManifestRows, 1, MaxManifestRows) :
          manifest_table = [cols |-> ManifestCols, rows |-> rows]
    /\ cv_dict = <<>>
    /\ versions = <<>>
    /\ pc = "map_current_terms_to_legacy"
    /\ InitRunIdle
    /\ InitMergeLocals

NextVocab == map_current_terms_to_legacy \/ update_nonpreferred_terms

SpecVocab == InitVocab /\ [][NextVocab]_vars

-----------------------------------------------------------------------------
(* union_qc.py: get_tables *)

manifestPath(name) == "output/" \o name \o ".csv"

TableIds == {"syn1", "syn2", "syn3", "syn4", "syn5"}

\* What the table store holds: two publication tables, a dataset table, a table
\* of a type that has no rules, and a tool table of one row
Store(tableId) ==
    CASE tableId = "syn1" ->
           BuildTable("PublicationView", "PublicationView",
                      <<[key |-> "12345", val |-> "syn1"], [key |-> "12345", val |-> "syn2"]>>)
      [] tableId = "syn2" ->
           BuildTable("DatasetView", "DatasetView",
                      <<[key |-> "A", val |-> "syn3"], [key |-> "B", val |-> NaN]>>)
      [] tableId = "syn3" ->
           BuildTable("GrantView", "GrantView",
                      <<[key |-> NaN, val |-> "syn4"], [key |-> NaN, val |-> "syn5"]>>)
      [] tableId = "syn4" ->
           BuildTable("PublicationView", "PublicationView",
                      <<[key |-> "67890", val |-> "syn6"], [key |-> NaN, val |-> "syn7"]>>)
      [] tableId = "syn5" ->
           BuildTable("ToolView", "ToolView", <<[key |-> "T", val |-> "syn8"]>>)

\* Lines 50-63 for the identifier at position k + 1; the query may raise
get_tables_iter ==
    /\ pc = "get_tables"
    /\ k < Len(inputList)
    /\ \E answered \in BOOLEAN :
          LET df == Store(inputList[k + 1])
          IN IF ~answered
             THEN /\ pc' = Propagate(pc)
                  /\ error' = [kind |-> "SynapseError", name |-> inputList[k + 1]]
                  /\ UNCHANGED <<k, tables, fs, writes>>
             ELSE IF Len(df.rows) < 2 \/ Len(df.cols) < 1
             THEN /\ pc' = Propagate(pc)
                  /\ error' = [kind |-> "IndexError", name |-> inputList[k + 1]]
                  /\ UNCHANGED <<k, tables, fs, writes>>
             ELSE LET name == df.rows[2][df.cols[1]]
                  IN /\ fs' = WriteFile(fs, manifestPath(name), ToCsv(df))
                     /\ writes' = Append(writes, manifestPath(name))
                     /\ tables' = Append(tables,
                                         <<IF mergeFlag THEN df ELSE manifestPath(name), name>>)
                     /\ k' = k + 1
                     /\ UNCHANGED <<pc, error>>
    /\ UNCHANGED <<inputList, mergeFlag, newTables, valid, checkTables, parsed,
                   validEntries, returncode, mergeVars, vocabVars>>

\* Line 65, and main's lines 313-326
get_tables_return ==
    /\ pc = "get_tables"
    /\ k = Len(inputList)
    /\ newTables' = tables
    /\ pc' = IF mergeFlag THEN "combine_rows" ELSE "validate_tables"
    /\ k' = 0
    /\ UNCHANGED <<inputList, mergeFlag, tables, valid, checkTables, parsed,
                   validEntries, returncode, fs, writes, error, mergeVars, vocabVars>>

-----------------------------------------------------------------------------
(* union_qc.py: validate_tables *)

outPath(name) == "output/" \o name \o "_out.txt"
errPath(name) == "output/" \o name \o "_error.txt"

TextFile(lines) == [kind |-> "txt", lines |-> lines]

\* The exit statuses of the validator
ExitCodes == {0, 1}

\* The standard output of the validator, as lines: nothing, one message, two
\* messages on a line, a line of one message followed by a line of two
Logs == {<<>>, <<"valid">>, <<"[a], [b]">>, <<"[a]", "[b], [c]">>}

\* check=False: the exit status is not looked at
Raised_Unchecked(code) == FALSE

\* subprocess.run(check=True) raises CalledProcessError on a non-zero exit status
Raised(code) == code # 0

\* Lines 237-268 for the table at position k + 1: the two log files are opened
\* for writing, the validator runs and writes to them
validate_tables_iter ==
    /\ pc = "validate_tables"
    /\ k < Len(newTables)
    /\ \E code \in ExitCodes, out \in Logs :
          LET path == newTables[k + 1][1]
              name == newTables[k + 1][2]
              err == IF code = 0 THEN <<>> ELSE <<"error">>
          IN /\ fs' = WriteFile(WriteFile(fs, outPath(name), TextFile(out)),
                                errPath(name), TextFile(err))
             /\ writes' = writes \o <<outPath(name), errPath(name)>>
             /\ returncode' = Append(returncode, <<name, code, path>>)
             /\ IF Raised(code)
                THEN /\ pc' = Propagate(pc)
                     /\ error' = [kind |-> "CalledProcessError", name |-> name]
                     /\ UNCHANGED <<valid, k>>
                ELSE /\ valid' = Append(valid, <<name, outPath(name), path>>)
                     /\ k' = k + 1
                     /\ UNCHANGED <<pc, error>>
    /\ UNCHANGED <<inputList, mergeFlag, tables, newTables, checkTables, parsed,
                   validEntries, mergeVars, vocabVars>>

\* Line 270, and main's lines 328-333
validate_tables_return ==
    /\ pc = "validate_tables"
    /\ k = Len(newTables)
    /\ checkTables' = valid
    /\ pc' = "parse_out"
    /\ k' = 0
    /\ UNCHANGED <<inputList, mergeFlag, tables, newTables, valid, parsed,
                   validEntries, returncode, fs, writes, error, mergeVars, vocabVars>>

-----------------------------------------------------------------------------
(* union_qc.py: parse_out *)

parsePath(name) == "output/" \o name \o "_out.csv"

\* str.strip() of spaces
RECURSIVE LStrip(_)
LStrip(s) ==
    IF Len(s) > 0 /\ SubSeq(s, 1, 1) = " " THEN LStrip(SubSeq(s, 2, Len(s))) ELSE s

RECURSIVE RStrip(_)
RStrip(s) ==
    IF Len(s) > 0 /\ SubSeq(s, Len(s), Len(s)) = " "
    THEN RStrip(SubSeq(s, 1, Len(s) - 1)) ELSE s

Strip(s) == LStrip(RStrip(s))

\* re.split("], ", s); cur is the piece read so far
RECURSIVE SplitDelimiter(_, _)
SplitDelimiter(s, cur) ==
    IF Len(s) = 0 THEN <<cur>>
    ELSE IF Len(s) >= 3 /\ SubSeq(s, 1, 3) = "], "
         THEN <<cur>> \o SplitDelimiter(SubSeq(s, 4, Len(s)), "")
         ELSE SplitDelimiter(SubSeq(s, 2, Len(s)), cur \o SubSeq(s, 1, 1))

\* The python engine with a regular-expression separator: each line is
\* stripped and split
FieldsOf(line) == SplitDelimiter(Strip(line), "")

\* skip_blank_lines: the lines whose only field is blank are left out
RECURSIVE NonBlank(_)
NonBlank(lines) ==
    IF Len(lines) = 0 THEN <<>>
    ELSE (IF FieldsOf(lines[1]) = <<"">> THEN <<>> ELSE <<FieldsOf(lines[1])>>)
         \o NonBlank(Tail(lines))

\* The strings read_table reads as a missing value (among them the empty field)
NaStrings == {"", "NA", "N/A", "NULL", "NaN", "None", "n/a", "nan", "null"}

\* pd.read_table(out, sep="], ", header=None, engine="python"): the first line
\* sets the number of columns; a longer line is an error, a shorter one is
\* filled with missing values
ReadTable(lines) ==
    LET content == NonBlank(lines)
        ncols == Len(content[1])
    IN IF Len(content) = 0
       THEN [error |-> "EmptyDataError", rows |-> <<>>]
       ELSE IF \E j \in DOMAIN content : Len(content[j]) > ncols
       THEN [error |-> "ParserError", rows |-> <<>>]
       ELSE [error |-> "none",
             rows |-> [j \in DOMAIN content |->
                         [c \in 1..ncols |->
                             IF c > Len(content[j]) \/ content[j][c] \in NaStrings
                             THEN NaN ELSE content[j][c]]]]

RECURSIVE DoubleQuotes(_)
DoubleQuotes(s) ==
    IF Len(s) = 0 THEN ""
    ELSE (IF SubSeq(s, 1, 1) = "\"" THEN "\"\"" ELSE SubSeq(s, 1, 1))
         \o DoubleQuotes(SubSeq(s, 2, Len(s)))

\* csv.QUOTE_MINIMAL: a field that holds the quote character is quoted
QuoteMinimal(field) ==
    IF DoubleQuotes(field) # field THEN "\"" \o DoubleQuotes(field) \o "\"" ELSE field

\* parsed.to_csv(path, index=False, sep="\n", header=False): the fields of a
\* row are separated by a line break, and so is one row from the next; a row
\* of one empty field is written as two quote characters
RECURSIVE ToCsvLines(_)
ToCsvLines(rows) ==
    IF Len(rows) = 0 THEN <<>>
    ELSE LET fields == [c \in DOMAIN rows[1] |-> QuoteMinimal(CsvField(rows[1][c]))]
         IN (IF fields = <<"">> THEN <<"\"\"">> ELSE fields) \o ToCsvLines(Tail(rows))

\* Lines 282-291 for the entry at position k + 1
parse_out_iter ==
    /\ pc = "parse_out"
    /\ k < Len(checkTables)
    /\ LET name == checkTables[k + 1][1]
           out == checkTables[k + 1][2]
           path == checkTables[k + 1][3]
           read == ReadTable(fs[out].lines)
       IN IF read.error # "none"
          THEN /\ pc' = Propagate(pc)
               /\ error' = [kind |-> read.error, name |-> name]
               /\ UNCHANGED <<fs, writes, parsed, k>>
          ELSE /\ fs' = WriteFile(fs, parsePath(name), TextFile(ToCsvLines(read.rows)))
               /\ writes' = Append(writes, parsePath(name))
               /\ parsed' = Append(parsed, <<name, parsePath(name), path>>)
               /\ k' = k + 1
               /\ UNCHANGED <<pc, error>>
    /\ UNCHANGED <<inputList, mergeFlag, tables, newTables, valid, checkTables,
                   validEntries, returncode, mergeVars, vocabVars>>

\* Line 293, and main's lines 334-335
parse_out_return ==
    /\ pc = "parse_out"
    /\ k = Len(checkTables)
    /\ validEntries' = parsed
    /\ pc' = "done"
    /\ UNCHANGED <<inputList, mergeFlag, k, tables, newTables, valid, checkTables,
                   parsed, returncode, fs, writes, error, mergeVars, vocabVars>>

-----------------------------------------------------------------------------
(* union_qc.py: main *)

Init ==
    /\ inputList \in SeqsBetween(TableIds, 1, MaxIds)
    /\ mergeFlag \in BOOLEAN
    /\ pc = "get_tables"
    /\ k = 0
    /\ tables = <<>>
    /\ newTables = <<>>
    /\ valid = <<>>
    /\ checkTables = <<>>
    /\ parsed = <<>>
    /\ validEntries = <<>>
    /\ fs = <<>>
    /\ writes = <<>>
    /\ error = NoError
    /\ returncode = <<>>
    /\ InitMergeLocals
    /\ InitVocabIdle

Next ==
    \/ get_tables_iter
    \/ get_tables_return
    \/ combine_rows_iter
    \/ combine_rows_return
    \/ validate_tables_iter
    \/ validate_tables_return
    \/ parse_out_iter
    \/ parse_out_return

Spec == Init /\ [][Next]_vars

-----------------------------------------------------------------------------
(* Properties of combine_rows *)

\* The latest iteration of combine_rows merged a table
Merged == pc = "combine_rows" /\ k >= 1

\* The table it was given, as fetched, and its record type name
RawTable == newTables[k][1]
RawName == newTables[k][2]

MergedRegistered == Merged /\ RawName \in RegisteredNames

\* The grouping key of input row j after coercion to string
KeyOf(j) == Str(RawTable.rows[j][aliasColumn])

\* The input rows of the group of key g, in input order
GroupRows(g) == SelectIdx([j \in DOMAIN RawTable.rows |-> KeyOf(j)], g, 1)

\* The merged rows of key g
MergedRowsOf(g) ==
    {n \in DOMAIN mergedTable.rows : mergedTable.rows[n][aliasColumn] = g}

RulesWith(rule) == {mapping[j][1] : j \in {i \in DOMAIN mapping : mapping[i][2] = rule}}

\* C1: the merged table of a registered type has exactly one row per distinct
\* grouping-key value of the input (keys compared as strings, a missing key
\* being the string "nan"), and so has the file written for it.
C1_RowCount ==
    MergedRegistered =>
        LET keys == {KeyOf(j) : j \in DOMAIN RawTable.rows}
        IN /\ Len(mergedTable.rows) = Cardinality(keys)
           /\ \A g \in keys : Cardinality(MergedRowsOf(g)) = 1
           /\ Len(fs[mergePath(RawName)].lines) = Cardinality(keys)

\* A table with a missing key cell whose two rows are each a group of their own
C1_Witness ==
    /\ MergedRegistered
    /\ \E j \in DOMAIN RawTable.rows : RawTable.rows[j][aliasColumn] = NaN
    /\ Cardinality({KeyOf(j) : j \in DOMAIN RawTable.rows}) = 2
    /\ Len(mergedTable.rows) = 2

\* C2: in the merged table of a registered type every column whose rule is
\* ",".join holds, in each merged row, the values of that column over the rows
\* of the group joined with "," in input order, duplicates kept.
C2_JoinColumns ==
    MergedRegistered =>
        \A c \in RulesWith("join") :
            \A n \in DOMAIN mergedTable.rows :
                /\ c \in DOMAIN mergedTable.rows[n]
                /\ LET members == GroupRows(mergedTable.rows[n][aliasColumn])
                   IN mergedTable.rows[n][c]
                        = Join(",", [j \in DOMAIN members |->
                                        Str(RawTable.rows[members[j]][c])])

\* C3: in the merged table of a registered type every column whose rule is
\* "first" holds, in each merged row, the value of that column in the first
\* input row of the group, a missing cell being the string "nan".
C3_KeepFirst ==
    MergedRegistered =>
        \A c \in RulesWith("first") :
            \A n \in DOMAIN mergedTable.rows :
                /\ c \in DOMAIN mergedTable.rows[n]
                /\ LET members == GroupRows(mergedTable.rows[n][aliasColumn])
                   IN mergedTable.rows[n][c] = Str(RawTable.rows[members[1]][c])

\* A group of two rows whose first row has a missing cell where the second has a value
C3_Witness ==
    /\ MergedRegistered
    /\ Len(RawTable.rows) >= 2
    /\ KeyOf(1) = KeyOf(2)
    /\ RawTable.rows[1]["entityId"] = NaN
    /\ RawTable.rows[2]["entityId"] = "syn2"
    /\ \E n \in DOMAIN mergedTable.rows :
          /\ mergedTable.rows[n][aliasColumn] = KeyOf(1)
          /\ mergedTable.rows[n][componentColumn] = RawName
          /\ \A c \in RulesWith("first") \ {componentColumn} :
                mergedTable.rows[n][c] = "nan"

\* C4: the file written for a merged table holds the grouping-key column and
\* every column of the rules; two publication rows of Pubmed Id 12345 with
\* entityId syn1 and syn2 give one line with entityId "syn1,syn2".
C4_MergedFileColumns ==
    MergedRegistered =>
        LET file == fs[mergePath(RawName)]
            at(c) == IndexOf(file.header, c, 1)
        IN /\ {aliasColumn} \cup MappingCols(mapping) \subseteq Range(file.header)
           /\ (/\ RawName = "PublicationView"
               /\ Len(RawTable.rows) = 2
               /\ \A j \in 1..2 : RawTable.rows[j]["Pubmed Id"] = "12345"
               /\ RawTable.rows[1]["entityId"] = "syn1"
               /\ RawTable.rows[2]["entityId"] = "syn2")
              => /\ Len(file.lines) = 1
                 /\ file.lines[1][at("Pubmed Id")] = "12345"
                 /\ file.lines[1][at("entityId")] = "syn1,syn2"

\* C5: combine_rows merges no table whose record type is not registered: no
\* merged file is listed for such a name, wherever the table is in the batch.
C5_UnregisteredRejected ==
    \A j \in DOMAIN groups : groups[j][2] \in RegisteredNames

-----------------------------------------------------------------------------
(* Properties of update_nonpreferred_terms *)

\* The table update number n was applied to
VersionBefore(n) == IF n = 1 THEN manifest_table ELSE versions[n - 1]

\* The value-wise substitution of one cell of column c
Substituted(c, cell) ==
    IF Renamed(c) \in DOMAIN cv_dict /\ cell \in DOMAIN cv_dict[Renamed(c)]
    THEN cv_dict[Renamed(c)][cell]
    ELSE cell

\* C6: update_nonpreferred_terms keeps the columns and rows of the table and
\* changes cell by cell: a cell of a column whose aliased name is a category
\* of the map and whose value is a key of that category becomes the standard
\* term; every other cell is unchanged.
C6_ValueWise ==
    \A n \in DOMAIN versions :
        /\ versions[n].cols = VersionBefore(n).cols
        /\ Len(versions[n].rows) = Len(VersionBefore(n).rows)
        /\ \A j \in DOMAIN versions[n].rows :
              \A c \in ColSet(versions[n]) :
                  versions[n].rows[j][c] = Substituted(c, VersionBefore(n).rows[j][c])

\* The assay column holds RNAseq in one row and Flow Cytometry in the next; the
\* first becomes RNA-seq, the second and the title cells stay
C6_Witness ==
    /\ Len(versions) >= 1
    /\ Len(vocab_csv) >= 1
    /\ vocab_csv[1] = [category |-> "assay", valid_value |-> "RNA-seq",
                       nonpreferred_values |-> "RNAseq, RNA Seq"]
    /\ Len(manifest_table.rows) = 2
    /\ manifest_table.rows[1]["Publication Assay"] = "RNAseq"
    /\ manifest_table.rows[2]["Publication Assay"] = "Flow Cytometry"
    /\ versions[1].rows[1]["Publication Assay"] = "RNA-seq"
    /\ versions[1].rows[2]["Publication Assay"] = "Flow Cytometry"
    /\ versions[1].rows[1]["Publication Title"] = "RNAseq"

\* The rows of the reference table that have synonyms
WithSynonyms == {j \in DOMAIN vocab_csv : vocab_csv[j].nonpreferred_values # NaN}

SynonymsOf(j) == Range(TermsOf(vocab_csv[j].nonpreferred_values))

\* The data-model invariant: within a category the synonym sets of different
\* standard terms are disjoint
DisjointSynonyms ==
    \A i, j \in WithSynonyms :
        (/\ vocab_csv[i].category = vocab_csv[j].category
         /\ vocab_csv[i].valid_value # vocab_csv[j].valid_value)
        => SynonymsOf(i) \cap SynonymsOf(j) = {}

\* No standard term that has synonyms is listed as a synonym in its category
NoStandardTermIsSynonym ==
    \A i, j \in WithSynonyms :
        vocab_csv[i].category = vocab_csv[j].category
        => vocab_csv[i].valid_value \notin SynonymsOf(j)

\* C7 as stated: for a reference table with disjoint synonym sets, updating
\* twice gives the table that updating once gives.
C7_Idempotent ==
    (DisjointSynonyms /\ Len(versions) >= 2) => versions[2] = versions[1]

\* C7 amended: for a reference table with disjoint synonym sets in which no
\* standard term that has synonyms is itself listed as a synonym in the same
\* category, every further update leaves the table as the first update left it.
C7_IdempotentNoChain ==
    (DisjointSynonyms /\ NoStandardTermIsSynonym)
    => \A n \in DOMAIN versions : n >= 2 => versions[n] = versions[1]

\* Such a reference table, a first update that changed the table and a second
\* one that changed nothing
C7_Witness ==
    /\ DisjointSynonyms
    /\ NoStandardTermIsSynonym
    /\ Len(versions) >= 2
    /\ versions[1] # manifest_table
    /\ versions[2] = versions[1]

-----------------------------------------------------------------------------
(* Properties of a run of main *)

\* The record type names of the tables fetched so far, in request order
FetchedNames == [j \in DOMAIN tables |-> tables[j][2]]

\* The files a downstream stage (merge, validate, parse) has written
DownstreamWrites ==
    {j \in DOMAIN writes :
        \E n \in Range(FetchedNames) \cup {error.name} :
            writes[j] \in {mergePath(n), outPath(n), errPath(n), parsePath(n)}}

\* C8: when the validator exits with a non-zero status for a record type, the
\* run ends with the validator's failure reported for that record type, and
\* the run has produced no structured log for it.
C8_ValidatorFailure ==
    \A j \in DOMAIN returncode :
        returncode[j][2] # 0 =>
            /\ pc = "failed"
            /\ error = [kind |-> "CalledProcessError", name |-> returncode[j][1]]
            /\ parsePath(returncode[j][1]) \notin DOMAIN fs
            /\ \A i \in DOMAIN parsed : parsed[i][1] # returncode[j][1]

\* The validator exits with status 1 for the second of two record types, after
\* its log files were opened
C8_Witness ==
    /\ Len(returncode) = 2
    /\ returncode[1][2] = 0
    /\ returncode[2][2] = 1
    /\ returncode[1][1] # returncode[2][1]
    /\ error.kind = "CalledProcessError"
    /\ outPath(returncode[2][1]) \in DOMAIN fs
    /\ parsePath(returncode[2][1]) \notin DOMAIN fs

\* C9: when the fetch of one of the requested tables fails, no merge, no
\* validator run and no log parse happens for any record type in that run.
C9_FetchAllOrNothing ==
    error.kind \in {"SynapseError", "IndexError"} =>
        /\ pc = "failed"
        /\ groups = <<>>
        /\ returncode = <<>>
        /\ valid = <<>>
        /\ parsed = <<>>
        /\ DownstreamWrites = {}
        /\ \A p \in DOMAIN fs : \E n \in Range(FetchedNames) : p = manifestPath(n)

\* The second fetch fails after the first succeeded and stored its table
C9_Witness ==
    /\ error.kind = "SynapseError"
    /\ Len(inputList) = 2
    /\ k = 1
    /\ Len(tables) = 1
    /\ manifestPath(tables[1][2]) \in DOMAIN fs

PostFetchFailure == error.kind \in {"UnboundLocalError", "KeyError", "CalledProcessError"}

\* C10 as stated: when merge or the validator fails for one record type, every
\* other record type of the run has its validation logs and its structured
\* log once the run has ended.
C10_ScopedToOneType ==
    (PostFetchFailure /\ pc \in {"failed", "done"}) =>
        \A n \in Range(FetchedNames) \ {error.name} :
            /\ outPath(n) \in DOMAIN fs
            /\ errPath(n) \in DOMAIN fs
            /\ parsePath(n) \in DOMAIN fs

\* C10 amended: a failure of merge or of the validator for one record type ends
\* the whole run at that point: the validator has run only for the tables
\* before the failing one (for none when merge failed), and no record type
\* gets a structured log.
C10_FailureEndsRun ==
    PostFetchFailure =>
        /\ pc = "failed"
        /\ Len(returncode) = (IF error.kind = "CalledProcessError" THEN k + 1 ELSE 0)
        /\ Len(valid) = (IF error.kind = "CalledProcessError" THEN k ELSE 0)
        /\ checkTables = <<>>
        /\ parsed = <<>>
        /\ \A n \in Range(FetchedNames) : parsePath(n) \notin DOMAIN fs

\* The validator fails for the first of two different record types: the second
\* is never validated and neither has a structured log
C10_Witness ==
    /\ error.kind = "CalledProcessError"
    /\ Len(newTables) = 2
    /\ k = 0
    /\ newTables[1][2] # newTables[2][2]
    /\ error.name = newTables[1][2]
    /\ outPath(newTables[2][2]) \notin DOMAIN fs
    /\ parsePath(newTables[2][2]) \notin DOMAIN fs

-----------------------------------------------------------------------------
(* Properties of the order of the stages *)

\* The record type name of the table stored under an identifier
StoredName(tableId) == Store(tableId).rows[1][componentColumn]

\* The positions in writes at which path was written
WritesOf(path) == {j \in DOMAIN writes : writes[j] = path}

\* Some write of path a comes before write number j
WrittenBefore(a, j) == \E i \in WritesOf(a) : i < j

\* C11: the stages of a run happen in the order fetch, merge (if and only if
\* the merge flag is set), validate, parse: a file of a stage is written only
\* after the file of the stage before for the same record type; the validator
\* is given output/<type>_merged.csv when the flag is set and
\* output/<type>.csv otherwise; every stage's list carries the record type
\* names of the requested tables, in request order.
C11_StageOrder ==
    /\ \A j \in DOMAIN tables : tables[j][2] = StoredName(inputList[j])
    /\ \A j \in DOMAIN groups : groups[j][2] = StoredName(inputList[j])
    /\ \A j \in DOMAIN valid : valid[j][1] = StoredName(inputList[j])
    /\ \A j \in DOMAIN parsed : parsed[j][1] = StoredName(inputList[j])
    /\ pc = "done" =>
          [j \in DOMAIN validEntries |-> validEntries[j][1]]
            = [j \in DOMAIN inputList |-> StoredName(inputList[j])]
    /\ (groups # <<>> \/ pc = "combine_rows") => mergeFlag
    /\ (mergeFlag /\ pc \in {"validate_tables", "parse_out", "done"})
          => Len(groups) = Len(inputList)
    /\ \A j \in DOMAIN returncode :
          LET name == returncode[j][1]
          IN returncode[j][3] = (IF mergeFlag THEN "output/" \o name \o "_merged.csv"
                                 ELSE "output/" \o name \o ".csv")
    /\ \A j \in DOMAIN writes :
          \A n \in Range(FetchedNames) :
              /\ writes[j] = "output/" \o n \o "_merged.csv"
                    => mergeFlag /\ WrittenBefore("output/" \o n \o ".csv", j)
              /\ writes[j] = "output/" \o n \o "_out.txt"
                    => /\ WrittenBefore("output/" \o n \o ".csv", j)
                       /\ mergeFlag => WrittenBefore("output/" \o n \o "_merged.csv", j)
              /\ writes[j] = "output/" \o n \o "_out.csv"
                    => WrittenBefore("output/" \o n \o "_out.txt", j)

\* A finished run with the merge flag set for two tables of different types
C11_Witness ==
    /\ pc = "done"
    /\ mergeFlag
    /\ Len(inputList) = 2
    /\ StoredName(inputList[1]) # StoredName(inputList[2])
    /\ Len(validEntries) = 2
    /\ validEntries[1][3] = "output/" \o StoredName(inputList[1]) \o "_merged.csv"
    /\ writes = <<manifestPath(validEntries[1][1]), manifestPath(validEntries[2][1]),
                  mergePath(validEntries[1][1]), mergePath(validEntries[2][1]),
                  outPath(validEntries[1][1]), errPath(validEntries[1][1]),
                  outPath(validEntries[2][1]), errPath(validEntries[2][1]),
                  parsePath(validEntries[1][1]), parsePath(validEntries[2][1])>>

-----------------------------------------------------------------------------
(* Properties of the vocabulary map *)

\* The pieces of s between commas, a space that follows a comma being part of
\* the separator; cur is the piece read so far
RECURSIVE SplitCommaOptionalSpace(_, _)
SplitCommaOptionalSpace(s, cur) ==
    IF Len(s) = 0 THEN <<cur>>
    ELSE IF SubSeq(s, 1, 1) = ","
         THEN LET rest == IF Len(s) >= 2 /\ SubSeq(s, 2, 2) = " "
                          THEN SubSeq(s, 3, Len(s)) ELSE SubSeq(s, 2, Len(s))
              IN <<cur>> \o SplitCommaOptionalSpace(rest, "")
         ELSE SplitCommaOptionalSpace(SubSeq(s, 2, Len(s)), cur \o SubSeq(s, 1, 1))

\* The rows of category c that list term t among their nonpreferred values
RowsListing(c, t) ==
    {j \in DOMAIN vocab_csv :
        /\ vocab_csv[j].category = c
        /\ vocab_csv[j].nonpreferred_values # NaN
        /\ t \in Range(SplitCommaOptionalSpace(vocab_csv[j].nonpreferred_values, ""))}

\* The terms listed by the rows of category c
TermsListed(c) ==
    UNION {Range(SplitCommaOptionalSpace(vocab_csv[j].nonpreferred_values, "")) :
             j \in {i \in DOMAIN vocab_csv : /\ vocab_csv[i].category = c
                                            /\ vocab_csv[i].nonpreferred_values # NaN}}

\* C12: the map built from the reference table holds, for a category c,
\* exactly the terms got by splitting the nonpreferred_values cells of the
\* rows of c on "," with an optional space after it; a row without
\* nonpreferred values adds no entry; every term maps to the valid_value of
\* the last row of c that lists it.
C12_MapContents ==
    pc = "update_manifest_tables" =>
        /\ DOMAIN cv_dict = {vocab_csv[j].category :
                               j \in {i \in DOMAIN vocab_csv :
                                        vocab_csv[i].nonpreferred_values # NaN}}
        /\ \A c \in DOMAIN cv_dict :
              /\ DOMAIN cv_dict[c] = TermsListed(c)
              /\ \A t \in DOMAIN cv_dict[c] :
                    \E j \in RowsListing(c, t) :
                        /\ \A i \in RowsListing(c, t) : i <= j
                        /\ cv_dict[c][t] = vocab_csv[j].valid_value

\* The map of a table in which two rows of one category list the same term
\* under different standard terms, one cell separated by ", " and one by ","
C12_Witness ==
    /\ pc = "update_manifest_tables"
    /\ Len(vocab_csv) = 2
    /\ vocab_csv[1].nonpreferred_values = "RNAseq, RNA Seq"
    /\ vocab_csv[2].nonpreferred_values = "scRNAseq,RNAseq"
    /\ DOMAIN cv_dict["assay"] = {"RNAseq", "RNA Seq", "scRNAseq"}
    /\ cv_dict["assay"]["RNAseq"] = "scRNA-seq"
    /\ cv_dict["assay"]["RNA Seq"] = "RNA-seq"

-----------------------------------------------------------------------------
(* Properties of the structured log *)

\* The messages of a log: the pieces of every line between "], ", in order
RECURSIVE MessagesOf(_)
MessagesOf(lines) ==
    IF Len(lines) = 0 THEN <<>>
    ELSE SplitDelimiter(lines[1], "") \o MessagesOf(Tail(lines))

\* C13: whatever the validator wrote to its standard output (nothing, a log
\* without "], ", lines with different numbers of "], "), parse_out ends
\* without an error and the structured log holds exactly the messages got by
\* splitting the log on "], ", in order, one to a line, and no other line.
C13_ParseOut ==
    /\ error.kind \notin {"EmptyDataError", "ParserError"}
    /\ \A j \in DOMAIN parsed :
          fs[parsed[j][2]].lines = MessagesOf(fs[outPath(parsed[j][1])].lines)

-----------------------------------------------------------------------------
(* Properties of the files of a run *)

\* C14: in one run, whatever identifiers are requested (two tables of the same
\* record type among them), a record type has one validation result and no
\* more, and a file that a stage has written is not written again.
C14_WriteOnce ==
    /\ \A i, j \in DOMAIN valid : valid[i][1] = valid[j][1] => i = j
    /\ \A i, j \in DOMAIN writes : writes[i] = writes[j] => i = j

-----------------------------------------------------------------------------
(* Properties of the Component column *)

\* The fetched table has Component as its first column and its record type
\* name in every cell of it
FetchedComponentFirst ==
    /\ RawTable.cols[1] = componentColumn
    /\ \A n \in DOMAIN RawTable.rows : RawTable.rows[n][componentColumn] = RawName

\* C15: a table handed from one stage to the next, the fetched one and the
\* merged one alike, has Component as its first column, and every value of
\* that column is the record type name.
C15_ComponentFirst ==
    Merged =>
        /\ FetchedComponentFirst
        /\ mergedTable.cols[1] = componentColumn
        /\ fs[mergePath(RawName)].header[1] = componentColumn
        /\ \A n \in DOMAIN mergedTable.rows :
              mergedTable.rows[n][componentColumn] = RawName

\* C15, amended: the fetched table has Component as its first column; the
\* merged table, and the file written from it, has the grouping key as its
\* first column and Component as its second; every value of Component, in
\* both tables, is the record type name.
C15_ComponentSecond ==
    Merged =>
        /\ FetchedComponentFirst
        /\ mergedTable.cols[1] = aliasColumn
        /\ mergedTable.cols[2] = componentColumn
        /\ fs[mergePath(RawName)].header = mergedTable.cols
        /\ \A n \in DOMAIN mergedTable.rows :
              mergedTable.rows[n][componentColumn] = RawName

\* A publication table merged into two rows
C15_Witness ==
    /\ Merged
    /\ RawName = "PublicationView"
    /\ Len(RawTable.rows) = 2
    /\ Len(mergedTable.rows) = 2
    /\ mergedTable.cols[1] = "Pubmed Id"
    /\ mergedTable.cols[2] = "Component"
    /\ fs["output/PublicationView_merged.csv"].lines[1][2] = "PublicationView"

-----------------------------------------------------------------------------
(* Properties of get_tables *)

\* C16: of a fetched table that has a row (one row is enough) and Component
\* as its first column, get_tables takes the Component label as the record
\* type name and returns it with the table or its path; it does not fail.
C16_NameFromComponent ==
    /\ error.kind = "IndexError" => Len(Store(error.name).rows) = 0
    /\ \A j \in DOMAIN tables :
          /\ tables[j][2] = StoredName(inputList[j])
          /\ tables[j][1] = (IF mergeFlag THEN Store(inputList[j])
                             ELSE manifestPath(StoredName(inputList[j])))

=============================================================================
